---- MODULE Spec2Model ----
(***************************************************************************)
(* Model of the aggregation pipeline of oguzaydinn/sentiments:             *)
(*   - reddit.ts     fetchComments: flat comment list -> reply tree        *)
(*   - sentiment.ts  analyzeRedditData / calculateWeightedAverageSentiment *)
(*   - ner.ts        deduplicateEntities / processCommentsForEntities /    *)
(*                   buildEntityChains / analyzeEntities                   *)
(*   - storage.ts    saveConsolidatedAnalysis                              *)
(*   - server.ts     processAnalysisJob                                    *)
(*                                                                         *)
(* Numbers: comment scores are integers.  Polarity values are integers in  *)
(* hundredths (0.5 is 50).  A quotient computed by the code is kept as the *)
(* pair <<numerator, denominator>> and compared by cross-multiplication,   *)
(* so no rounding is introduced by the model.                              *)
(***************************************************************************)
EXTENDS Integers, Sequences, FiniteSets, TLC

VARIABLES
    pc,         \* position of the per-source pipeline: "fetch", "built", "analyzed"
    raw,        \* rawComments of the post being fetched (reddit.ts:128-148)
    data,       \* the RedditData under construction (postData / dataWithSentiment)
    sources,        \* per source, the mention events of processCommentsForEntities
    entityAnalyses, \* the SubredditEntityAnalysis of the sources analysed so far
    consolidated,   \* what saveConsolidatedAnalysis wrote, Null before the call
    job,        \* the analysisJob table: rows (status, progress, errorMessage, resultIds)
    run,        \* per job, processAnalysisJob's position and locals (pc, i, allData)
    db,         \* the redditAnalysis and entityChain collections
    now,        \* the clock read by new Date(), in hours
    response,   \* the body of the last HTTP response sent, Null before any
    call,       \* a helper function called on its own: name, argument, result
    lastIndex,  \* lastIndex of the module-level /g patterns of SARCASM_INDICATORS
    flaky       \* whether the database, the token endpoint and the NER service
                \* may throw in this run

pipeVars == <<pc, raw, data>>

entVars == <<sources, entityAnalyses, consolidated>>

jobVars == <<job, run, db, now, response>>

otherVars == <<call, lastIndex, flaky>>

vars == <<pc, raw, data, sources, entityAnalyses, consolidated, job, run, db, now,
          response, call, lastIndex, flaky>>

(***************************************************************************)
(* Bounds                                                                  *)
(***************************************************************************)
MaxComments == 3

MaxMentions == 3

MaxJobMentions == 2

MaxEntities == 4

NumSources == 2

MaxTextLen == 3

MaxJobs == 2

MaxTicks == 3

MaxStored == 2

(***************************************************************************)
(* Generic helpers                                                         *)
(***************************************************************************)
Range(s) == {s[i] : i \in DOMAIN s}

\* null / undefined
Null == [isNull |-> TRUE]

RECURSIVE SumSeq(_)
SumSeq(s) == IF s = <<>> THEN 0 ELSE Head(s) + SumSeq(Tail(s))

\* Array.prototype.sort with the comparator (a, b) => key(b) - key(a): a stable
\* sort, descending by keys[i]; keys[i] is the key of s[i].
SortDescBy(s, keys) ==
    LET rank(i) == 1 + Cardinality({j \in DOMAIN s :
                        keys[j] > keys[i] \/ (keys[j] = keys[i] /\ j < i)})
    IN  [r \in DOMAIN s |-> s[CHOOSE i \in DOMAIN s : rank(i) = r]]

\* A JavaScript Map: a sequence of <<key, value>> entries in insertion order.
MapHas(m, k) == \E j \in DOMAIN m : m[j][1] = k

MapIndex(m, k) == CHOOSE j \in DOMAIN m : m[j][1] = k

MapValues(m) == [j \in DOMAIN m |-> m[j][2]]

(***************************************************************************)
(* Raw comments (reddit.ts:134-148).  A parentId string is kept as its     *)
(* prefix and the rest: "t1_abc" is [prefix |-> "t1_", ref |-> "abc"]; the *)
(* empty/absent parentId is [prefix |-> "", ref |-> ""].                   *)
(***************************************************************************)
NoParent == [prefix |-> "", ref |-> ""]

PostRef == [prefix |-> "t3_", ref |-> "p"]

CommentRef(id) == [prefix |-> "t1_", ref |-> id]

BareRef(id) == [prefix |-> "", ref |-> id]

\* !comment.parentId : null, undefined or the empty string
IsAbsent(parentId) == parentId.prefix = "" /\ parentId.ref = ""

\* comment.parentId.startsWith("t3_")
StartsWithT3(parentId) == parentId.prefix = "t3_"

\* comment.parentId.replace("t1_", "")
StripT1(parentId) == parentId.ref

\* The external polarity scorer VADER, as a table text -> scores (hundredths).
Texts == {"good", "great", "awful"}

Polarity(text) ==
    CASE text = "good"  -> [compound |-> 50,  pos |-> 40, neu |-> 60, neg |-> 0]
      [] text = "great" -> [compound |-> 80,  pos |-> 70, neu |-> 30, neg |-> 0]
      [] text = "awful" -> [compound |-> -90, pos |-> 0,  neu |-> 20, neg |-> 80]
      [] text = "Paris great" -> [compound |-> 80, pos |-> 70, neu |-> 30, neg |-> 0]
      [] text = "OpenAI, Paris; OpenAI awful" ->
                           [compound |-> -90, pos |-> 0,  neu |-> 20, neg |-> 80]
      [] OTHER          -> [compound |-> 0,   pos |-> 0,  neu |-> 100, neg |-> 0]

Fields == {"compound", "pos", "neu", "neg"}

\* the texts on which polarity_scores throws (sentiment.ts:14-16)
ScorerThrows(text) == text = "Paris [scorer throws]"

\* the texts on which the compromise.js tagger throws (ner.ts:53-90)
TaggerThrows(text) == text = "Paris [tagger throws]"

(***************************************************************************)
(* Sentiment values                                                        *)
(***************************************************************************)
Frac(n, d) == <<n, d>>

FracEq(x, y) == x[1] * y[2] = y[1] * x[2]

\* { compound: 0, pos: 0, neu: 0, neg: 0 }
ZeroScores == [f \in Fields |-> Frac(0, 1)]

\* comment.sentiment before analyzeRedditData has run (the optional field is absent)
Unset == [original |-> ZeroScores, overall |-> ZeroScores, label |-> "unset"]

\* variant: the thresholds themselves are neutral
getSentimentLabel_exclusive(compound) ==
    IF compound[1] * 100 > 5 * compound[2] THEN "positive"
    ELSE IF compound[1] * 100 < -5 * compound[2] THEN "negative"
    ELSE "neutral"

\* sentiment.ts:5-11
getSentimentLabel(compound) ==
    IF compound[1] * 100 >= 5 * compound[2] THEN "positive"
    ELSE IF compound[1] * 100 <= -5 * compound[2] THEN "negative"
    ELSE "neutral"

analyzeCommentSentiment(comment) ==
    LET sentiment == [f \in Fields |-> Frac(Polarity(comment.text)[f], 100)]
    IN  [original |-> sentiment, overall |-> sentiment,
         label |-> getSentimentLabel(sentiment.compound)]

(***************************************************************************)
(* reddit.ts fetchComments, lines 134-184: one post's comments -> tree.    *)
(* Comments are referred to by their position in allComments; a comment    *)
(* object is nodes[i], its replies list holds positions.                   *)
(***************************************************************************)
\* commentData of reddit.ts:135-146
CommentData(id, parentId, score, text, timestamp) ==
    [id |-> id, parentId |-> parentId, score |-> score, text |-> text,
     timestamp |-> timestamp, replies |-> <<>>, sentiment |-> Unset]

\* Map.prototype.set
MapSet(m, k, v) == [x \in (DOMAIN m) \cup {k} |-> IF x = k THEN v ELSE m[x]]

RECURSIVE IndexComments(_, _, _)
\* first pass, reddit.ts:153-157
IndexComments(allComments, i, commentMap) ==
    IF i > Len(allComments) THEN commentMap
    ELSE IndexComments(allComments, i + 1,
            IF allComments[i].id # ""
            THEN MapSet(commentMap, allComments[i].id, i)
            ELSE commentMap)

\* variant: a comment whose parent is not indexed is not kept
LinkComment_dropOrphan(allComments, commentMap, st, i) ==
    LET comment == allComments[i] IN
    IF IsAbsent(comment.parentId) \/ StartsWithT3(comment.parentId)
    THEN [st EXCEPT !.roots = Append(@, i)]
    ELSE IF StripT1(comment.parentId) \in DOMAIN commentMap
    THEN [st EXCEPT !.replies[commentMap[StripT1(comment.parentId)]] = Append(@, i)]
    ELSE st

\* one iteration of the second pass, reddit.ts:159-176
LinkComment(allComments, commentMap, st, i) ==
    LET comment == allComments[i] IN
    IF IsAbsent(comment.parentId)
    THEN [st EXCEPT !.roots = Append(@, i)]
    ELSE IF StartsWithT3(comment.parentId)
    THEN [st EXCEPT !.roots = Append(@, i)]
    ELSE LET parentId == StripT1(comment.parentId) IN
         IF parentId \in DOMAIN commentMap
         THEN [st EXCEPT !.replies[commentMap[parentId]] = Append(@, i)]
         ELSE [st EXCEPT !.roots = Append(@, i)]

RECURSIVE LinkComments(_, _, _, _)
LinkComments(allComments, commentMap, st, i) ==
    IF i > Len(allComments) THEN st
    ELSE LinkComments(allComments, commentMap,
                      LinkComment(allComments, commentMap, st, i), i + 1)

\* the discussion pushed at reddit.ts:178-184
BuildDiscussion(allComments) ==
    LET commentMap == IndexComments(allComments, 1, << >>)
        st == LinkComments(allComments, commentMap,
                  [replies |-> [i \in DOMAIN allComments |-> <<>>], roots |-> <<>>], 1)
    IN  [id |-> "p",
         nodes |-> [i \in DOMAIN allComments |->
                       [allComments[i] EXCEPT !.replies = st.replies[i]]],
         comments |-> st.roots,
         sentiment |-> Unset]

\* discussion.comments as a list of comment objects
RootComments(d) == [k \in DOMAIN d.comments |-> d.nodes[d.comments[k]]]

RECURSIVE FlattenList(_, _)
\* full traversal of a comment list and all replies (as countComments, server.ts:54-58)
FlattenList(nodes, list) ==
    IF list = <<>> THEN <<>>
    ELSE <<Head(list)>> \o FlattenList(nodes, nodes[Head(list)].replies)
                        \o FlattenList(nodes, Tail(list))

Flattened(d) == FlattenList(d.nodes, d.comments)

(***************************************************************************)
(* sentiment.ts calculateWeightedAverageSentiment, lines 25-83             *)
(***************************************************************************)
\* variant: no score filter before weighting
ValidComments_unfiltered(comments) == comments

\* comments.filter((comment) => comment.score > 0), sentiment.ts:33
ValidComments(comments) == SelectSeq(comments, LAMBDA c : c.score > 0)

RECURSIVE SimpleSum(_, _)
\* the reduce of sentiment.ts:37-50, one field
SimpleSum(comments, f) ==
    IF comments = <<>> THEN 0
    ELSE Polarity(Head(comments).text)[f] + SimpleSum(Tail(comments), f)

RECURSIVE WeightedSum(_, _)
\* the reduce of sentiment.ts:61-75, one field
WeightedSum(comments, f) ==
    IF comments = <<>> THEN 0
    ELSE Polarity(Head(comments).text)[f] * Head(comments).score
         + WeightedSum(Tail(comments), f)

RECURSIVE TotalScore(_)
\* totalScore += comment.score, sentiment.ts:66
TotalScore(comments) ==
    IF comments = <<>> THEN 0
    ELSE Head(comments).score + TotalScore(Tail(comments))

\* variant: the fallback still weights by score
SimpleAverage_weighted(comments) ==
    [f \in Fields |-> Frac(WeightedSum(comments, f), 100 * TotalScore(comments))]

\* sentiment.ts:52-57
SimpleAverage(comments) ==
    [f \in Fields |-> Frac(SimpleSum(comments, f), 100 * Len(comments))]

\* variant: no fallback when no comment has a positive score
calculateWeightedAverageSentiment_noFallback(comments) ==
    IF Len(comments) = 0 THEN ZeroScores
    ELSE LET validComments == ValidComments(comments) IN
         [f \in Fields |->
             Frac(WeightedSum(validComments, f), 100 * TotalScore(validComments))]

\* sentiment.ts:25-83
calculateWeightedAverageSentiment(comments) ==
    IF Len(comments) = 0 THEN ZeroScores
    ELSE LET validComments == ValidComments(comments) IN
         IF Len(validComments) = 0
         THEN SimpleAverage(comments)
         ELSE [f \in Fields |->
                  Frac(WeightedSum(validComments, f), 100 * TotalScore(validComments))]

(***************************************************************************)
(* sentiment.ts analyzeRedditData, lines 85-125                            *)
(***************************************************************************)
RECURSIVE analyzeCommentSentimentRecursive(_, _)
RECURSIVE AnalyzeReplies(_, _, _)

\* variant: the comment itself is scored, its replies are not visited
analyzeCommentSentimentRecursive_noDescent(nodes, i) ==
    [nodes EXCEPT ![i].sentiment = analyzeCommentSentiment(nodes[i])]

\* sentiment.ts:87-96
analyzeCommentSentimentRecursive(nodes, i) ==
    AnalyzeReplies([nodes EXCEPT ![i].sentiment = analyzeCommentSentiment(nodes[i])],
                   nodes[i].replies, 1)

\* forEach over a comment list, sentiment.ts:92-94 and 100-102
AnalyzeReplies(nodes, list, k) ==
    IF k > Len(list) THEN nodes
    ELSE AnalyzeReplies(analyzeCommentSentimentRecursive(nodes, list[k]), list, k + 1)

\* the list handed to calculateWeightedAverageSentiment at sentiment.ts:105-107
DiscussionSentimentInput(d) == RootComments(d)

\* body of data.discussions.forEach, sentiment.ts:99-113
AnalyzeDiscussion(d) ==
    LET analyzed == [d EXCEPT !.nodes = AnalyzeReplies(d.nodes, d.comments, 1)]
        discussionSentiment ==
            calculateWeightedAverageSentiment(DiscussionSentimentInput(analyzed))
    IN  [analyzed EXCEPT !.sentiment =
            [original |-> discussionSentiment, overall |-> discussionSentiment,
             label |-> getSentimentLabel(discussionSentiment.compound)]]

RECURSIVE FlatMapRoots(_)
\* data.discussions.flatMap((d) => d.comments), sentiment.ts:116
FlatMapRoots(discussions) ==
    IF discussions = <<>> THEN <<>>
    ELSE RootComments(Head(discussions)) \o FlatMapRoots(Tail(discussions))

analyzeRedditData(d) ==
    LET discussions == [k \in DOMAIN d.discussions |-> AnalyzeDiscussion(d.discussions[k])]
        subredditSentiment == calculateWeightedAverageSentiment(FlatMapRoots(discussions))
    IN  [d EXCEPT !.discussions = discussions,
                  !.sentiment = [original |-> subredditSentiment,
                                 overall |-> subredditSentiment,
                                 label |-> getSentimentLabel(subredditSentiment.compound)]]

(***************************************************************************)
(* The per-source pipeline of fetchComments (reddit.ts:61-209)             *)
(***************************************************************************)
\* postData of reddit.ts:96-109
PostData == [discussions |-> <<>>, sentiment |-> Unset]

\* reddit.ts:111-185, the loop body for the fetched post
FetchPost ==
    /\ pc = "fetch"
    /\ data' = [data EXCEPT !.discussions = Append(@, BuildDiscussion(raw))]
    /\ pc' = "built"
    /\ UNCHANGED <<raw, entVars, jobVars, otherVars>>

\* a comment reached by analyzeRedditData makes the scorer throw
ScorerThrowsIn(d) ==
    /\ \E k \in DOMAIN d.discussions : \E i \in DOMAIN d.discussions[k].nodes :
          ScorerThrows(d.discussions[k].nodes[i].text)
    /\ \E k \in DOMAIN d.discussions : \E i \in Range(Flattened(d.discussions[k])) :
          ScorerThrows(d.discussions[k].nodes[i].text)

\* reddit.ts:199-208 (preprocessRedditData leaves discussions untouched); an
\* exception of analyzeRedditData is caught at 205-208 and null is returned
AnalyzeSentiment ==
    /\ pc = "built"
    /\ IF ScorerThrowsIn(data)
       THEN data' = Null /\ pc' = "dropped"
       ELSE data' = analyzeRedditData(data) /\ pc' = "analyzed"
    /\ UNCHANGED <<raw, entVars, jobVars, otherVars>>

NextPipeline == FetchPost \/ AnalyzeSentiment

\* no entity analysis in this run
EntIdle == sources = <<>> /\ entityAnalyses = <<>> /\ consolidated = Null

EmptyDb == [analyses |-> <<>>, entityChains |-> <<>>]

\* no analysis job in this run
JobIdle == job = <<>> /\ run = <<>> /\ db = EmptyDb /\ now = 0 /\ response = Null

\* the positions in SARCASM_INDICATORS of the patterns with the g flag,
\* preprocessing.ts:160-163 (counted from 1)
GlobalPatterns == 7..10

\* lastIndex of the patterns when the module has just been loaded
FreshIndex == [p \in GlobalPatterns |-> 0]

\* no helper called on its own in this run
NoCall == call = Null /\ lastIndex = FreshIndex /\ flaky = FALSE

\* ids of the comments of one listing, by position
IdSeq == <<"a", "b", "c", "d", "e">>

Scores == {-5, 0, 10}

\* Inputs for the tree builder: any id (repeated, empty), any parent reference.
TreeIds == {"", "a", "b"}

TreeParents == {NoParent, PostRef, CommentRef("a"), CommentRef("b"),
                CommentRef("z"), BareRef("b")}

InitTree ==
    /\ pc = "fetch"
    /\ data = PostData
    /\ \E n \in 0..MaxComments : \E c \in [1..n -> TreeIds \X TreeParents] :
          raw = [i \in 1..n |-> CommentData(c[i][1], c[i][2], 1, "good", i)]
    /\ EntIdle
    /\ JobIdle
    /\ NoCall

SpecTree == InitTree /\ [][NextPipeline]_vars

\* Inputs for sentiment aggregation: distinct ids; each comment is top-level
\* or a reply to the comment listed just before it (roots, siblings, chains
\* of any depth); every score sign and every polarity.
SentParent(i, reply) == IF reply /\ i > 1 THEN CommentRef(IdSeq[i - 1]) ELSE PostRef

SentInput(c) ==
    [i \in DOMAIN c |-> CommentData(IdSeq[i], SentParent(i, c[i][1]), c[i][2], c[i][3], i)]

InitSent ==
    /\ pc = "fetch"
    /\ data = PostData
    /\ \E n \in 0..MaxComments : \E c \in [1..n -> BOOLEAN \X Scores \X Texts] :
          raw = SentInput(c)
    /\ EntIdle
    /\ JobIdle
    /\ NoCall

SpecSent == InitSent /\ [][NextPipeline]_vars

(***************************************************************************)
(* ner.ts: entity mentions and entity chains                               *)
(***************************************************************************)
\* ner.ts:229-235
classifySentiment(compound) ==
    IF compound[1] * 100 >= 5 * compound[2] THEN "positive"
    ELSE IF compound[1] * 100 <= -5 * compound[2] THEN "negative"
    ELSE "neutral"

SentimentFields == {"positivity", "negativity", "neutrality", "compound"}

\* ner.ts:205-224, the polarity of the context window around the entity
analyzeEntitySentiment(context) ==
    LET vaderResult == Polarity(context) IN
    [positivity |-> vaderResult.pos, negativity |-> vaderResult.neg,
     neutrality |-> vaderResult.neu, compound |-> vaderResult.compound,
     overall |-> classifySentiment(Frac(vaderResult.compound, 100))]

\* the mention pushed at ner.ts:264-270
EntityMention(entity, context, score, timestamp, postId) ==
    [entity |-> entity, sentiment |-> analyzeEntitySentiment(context),
     score |-> score, timestamp |-> timestamp, postId |-> postId]

\* what doc.people(), doc.places() and extractOrganizations find in a text, in
\* the order ner.ts:56-90 pushes them (compromise.js as a table)
Recognized(text) ==
    CASE text = "Paris great" ->
            <<[type |-> "PERSON", normalizedText |-> "paris", text |-> "Paris"],
              [type |-> "LOCATION", normalizedText |-> "paris", text |-> "Paris"]>>
      [] text = "OpenAI, Paris; OpenAI awful" ->
            <<[type |-> "LOCATION", normalizedText |-> "paris", text |-> "Paris;"],
              [type |-> "ORGANIZATION", normalizedText |-> "openai", text |-> "OpenAI,"],
              [type |-> "ORGANIZATION", normalizedText |-> "openai", text |-> "OpenAI"]>>
      [] OTHER -> <<>>

\* `${entity.type}:${entity.normalizedText}`, ner.ts:192
EntityKey(entity) == <<entity.type, entity.normalizedText>>

\* variant: entities are told apart by their normalized text alone
DeduplicateStep_textOnly(acc, entity) ==
    LET key == entity.normalizedText IN
    IF key \notin acc.seen
    THEN [seen |-> acc.seen \cup {key}, deduplicated |-> Append(acc.deduplicated, entity)]
    ELSE acc

\* body of the loop ner.ts:191-197
DeduplicateStep(acc, entity) ==
    LET key == EntityKey(entity) IN
    IF key \notin acc.seen
    THEN [seen |-> acc.seen \cup {key}, deduplicated |-> Append(acc.deduplicated, entity)]
    ELSE acc

RECURSIVE DeduplicateFrom(_, _)
DeduplicateFrom(entities, acc) ==
    IF entities = <<>> THEN acc
    ELSE DeduplicateFrom(Tail(entities), DeduplicateStep(acc, Head(entities)))

\* ner.ts:187-200
deduplicateEntities(entities) ==
    DeduplicateFrom(entities, [seen |-> {}, deduplicated |-> <<>>]).deduplicated

\* ner.ts:47-100; the catch at 96-99 returns the empty list
extractEntities(text) ==
    IF TaggerThrows(text) THEN <<>> ELSE deduplicateEntities(Recognized(text))

\* commentText.trim() is the empty string
IsBlank(text) == text \in {"", " "}

\* ner.ts:286
MentionKey(mention) == <<mention.entity.type, mention.entity.normalizedText>>

\* ner.ts:289-302
NewChain(mention) ==
    [entity |-> mention.entity, totalMentions |-> 0, uniquePosts |-> 0,
     totalScore |-> 0, sentimentTrend |-> <<>>,
     averageSentiment |-> [positivity |-> Frac(0, 1), negativity |-> Frac(0, 1),
                           neutrality |-> Frac(0, 1), compound |-> Frac(0, 1),
                           overall |-> "neutral"]]

\* variant: a negative comment score does not lower the chain's total
CountMention_clamped(chain, mention) ==
    [chain EXCEPT !.totalMentions = @ + 1,
                  !.totalScore = @ + (IF mention.score > 0 THEN mention.score ELSE 0),
                  !.sentimentTrend = Append(@, [timestamp |-> mention.timestamp,
                                                sentiment |-> mention.sentiment,
                                                score |-> mention.score])]

\* ner.ts:305-312
CountMention(chain, mention) ==
    [chain EXCEPT !.totalMentions = @ + 1,
                  !.totalScore = @ + mention.score,
                  !.sentimentTrend = Append(@, [timestamp |-> mention.timestamp,
                                                sentiment |-> mention.sentiment,
                                                score |-> mention.score])]

RECURSIVE CommentListMentions(_, _, _)
\* the loop over discussion.comments, ner.ts:253-273
CommentListMentions(d, list, discussionId) ==
    IF list = <<>> THEN <<>>
    ELSE LET comment == d.nodes[Head(list)]
             commentText == comment.text
             entities == extractEntities(commentText)
             own == IF ~IsBlank(commentText)
                    THEN [k \in DOMAIN entities |->
                            EntityMention(entities[k], commentText, comment.score,
                                          comment.timestamp, discussionId)]
                    ELSE <<>>
         IN  own \o CommentListMentions(d, Tail(list), discussionId)

RECURSIVE processCommentsForEntities(_)
\* ner.ts:240-277
processCommentsForEntities(discussions) ==
    IF discussions = <<>> THEN <<>>
    ELSE LET discussion == Head(discussions)
             discussionId == discussion.id
         IN  CommentListMentions(discussion, discussion.comments, discussionId)
                 \o processCommentsForEntities(Tail(discussions))

\* one iteration of the loop ner.ts:285-313
AddMention(chainMap, mention) ==
    LET key == MentionKey(mention)
        m == IF MapHas(chainMap, key) THEN chainMap
             ELSE Append(chainMap, <<key, NewChain(mention)>>)
        j == MapIndex(m, key)
    IN  [m EXCEPT ![j][2] = CountMention(@, mention)]

RECURSIVE GroupMentions(_, _)
GroupMentions(mentions, chainMap) ==
    IF mentions = <<>> THEN chainMap
    ELSE GroupMentions(Tail(mentions), AddMention(chainMap, Head(mentions)))

\* ner.ts:318-321
UniquePosts(chain) ==
    Cardinality({chain.sentimentTrend[k].score : k \in DOMAIN chain.sentimentTrend})

\* variant: without a positive score sum the chain gets the plain mean
AverageSentiment_unweighted(chain) ==
    LET trend == chain.sentimentTrend
        totalScoreWeight == SumSeq([k \in DOMAIN trend |-> trend[k].score])
        weighted(f) == Frac(SumSeq([k \in DOMAIN trend |->
                                      trend[k].sentiment[f] * trend[k].score]),
                            100 * totalScoreWeight)
        mean(f) == Frac(SumSeq([k \in DOMAIN trend |-> trend[k].sentiment[f]]),
                        100 * Len(trend))
    IN  IF totalScoreWeight > 0
        THEN [positivity |-> weighted("positivity"), negativity |-> weighted("negativity"),
              neutrality |-> weighted("neutrality"), compound |-> weighted("compound"),
              overall |-> classifySentiment(weighted("compound"))]
        ELSE [positivity |-> mean("positivity"), negativity |-> mean("negativity"),
              neutrality |-> mean("neutrality"), compound |-> mean("compound"),
              overall |-> classifySentiment(mean("compound"))]

\* ner.ts:324-347
AverageSentiment(chain) ==
    LET trend == chain.sentimentTrend
        totalScoreWeight == SumSeq([k \in DOMAIN trend |-> trend[k].score])
        weighted(f) == Frac(SumSeq([k \in DOMAIN trend |->
                                      trend[k].sentiment[f] * trend[k].score]),
                            100 * totalScoreWeight)
    IN  IF totalScoreWeight > 0
        THEN [positivity |-> weighted("positivity"), negativity |-> weighted("negativity"),
              neutrality |-> weighted("neutrality"), compound |-> weighted("compound"),
              overall |-> classifySentiment(weighted("compound"))]
        ELSE chain.averageSentiment

\* body of the loop ner.ts:316-348
FinishChain(chain) ==
    [chain EXCEPT !.uniquePosts = UniquePosts(chain),
                  !.averageSentiment = AverageSentiment(chain)]

\* variant: chains ranked by number of mentions
ChainSortKey_mentions(chain) == chain.totalMentions

\* the comparator of ner.ts:350-352
ChainSortKey(chain) == chain.totalScore

\* ner.ts:282-353
buildEntityChains(mentions) ==
    LET chains == MapValues(GroupMentions(mentions, <<>>))
        finished == [k \in DOMAIN chains |-> FinishChain(chains[k])]
    IN  SortDescBy(finished, [k \in DOMAIN finished |-> ChainSortKey(finished[k])])

CountType(chains, type) == Cardinality({k \in DOMAIN chains : chains[k].entity.type = type})

\* ner.ts:358-402, from the mentions of processCommentsForEntities on
analyzeEntities(subreddit, mentions) ==
    LET chains == buildEntityChains(mentions) IN
    [subreddit |-> subreddit,
     totalEntities |-> Len(chains),
     totalMentions |-> Len(mentions),
     totalScore |-> SumSeq([k \in DOMAIN mentions |-> mentions[k].score]),
     entityBreakdown |-> [persons |-> CountType(chains, "PERSON"),
                          organizations |-> CountType(chains, "ORGANIZATION"),
                          locations |-> CountType(chains, "LOCATION")],
     entityChains |-> chains]

(***************************************************************************)
(* storage.ts saveConsolidatedAnalysis, lines 113-215                      *)
(***************************************************************************)
RECURSIVE FlatMapChains(_)
\* storage.ts:121-123
FlatMapChains(analyses) ==
    IF analyses = <<>> THEN <<>>
    ELSE Head(analyses).entityChains \o FlatMapChains(Tail(analyses))

\* storage.ts:127
ChainKey(chain) == <<chain.entity.type, chain.entity.normalizedText>>

\* variant: a later source's counters replace the earlier ones
Accumulate_overwrite(existing, chain) ==
    [existing EXCEPT !.totalMentions = chain.totalMentions,
                     !.totalScore = chain.totalScore,
                     !.sentimentTrend = chain.sentimentTrend]

\* storage.ts:137-140
Accumulate(existing, chain) ==
    [existing EXCEPT !.totalMentions = @ + chain.totalMentions,
                     !.totalScore = @ + chain.totalScore,
                     !.sentimentTrend = @ \o chain.sentimentTrend]

\* variant: every chain met replaces the entry's averageSentiment
MergeChain_lastAverage(entityMap, chain) ==
    LET key == ChainKey(chain)
        m == IF MapHas(entityMap, key) THEN entityMap
             ELSE Append(entityMap,
                         <<key, [entity |-> chain.entity, totalMentions |-> 0,
                                 totalScore |-> 0, sentimentTrend |-> <<>>,
                                 averageSentiment |-> chain.averageSentiment]>>)
        j == MapIndex(m, key)
    IN  [m EXCEPT ![j][2] = [Accumulate(@, chain) EXCEPT
                                !.averageSentiment = chain.averageSentiment]]

\* one iteration of the loop storage.ts:126-141
MergeChain(entityMap, chain) ==
    LET key == ChainKey(chain)
        m == IF MapHas(entityMap, key) THEN entityMap
             ELSE Append(entityMap,
                         <<key, [entity |-> chain.entity, totalMentions |-> 0,
                                 totalScore |-> 0, sentimentTrend |-> <<>>,
                                 averageSentiment |-> chain.averageSentiment]>>)
        j == MapIndex(m, key)
    IN  [m EXCEPT ![j][2] = Accumulate(@, chain)]

RECURSIVE MergeChains(_, _)
MergeChains(chains, entityMap) ==
    IF chains = <<>> THEN entityMap
    ELSE MergeChains(Tail(chains), MergeChain(entityMap, Head(chains)))

\* the comparator of storage.ts:143-145
ConsolidatedSortKey(chain) == chain.totalScore

\* variant: totalEntities summed from the per-source summaries
EntityAnalysisData_summedEntities(analyses) ==
    IF Len(analyses) > 0
    THEN LET merged == MapValues(MergeChains(FlatMapChains(analyses), <<>>))
             consolidatedChains ==
                 SortDescBy(merged, [k \in DOMAIN merged |-> ConsolidatedSortKey(merged[k])])
         IN  [totalEntities |-> SumSeq([k \in DOMAIN analyses |-> analyses[k].totalEntities]),
              totalMentions |-> SumSeq([k \in DOMAIN analyses |-> analyses[k].totalMentions]),
              totalScore |-> SumSeq([k \in DOMAIN analyses |-> analyses[k].totalScore]),
              entityBreakdown |->
                  [persons |-> CountType(consolidatedChains, "PERSON"),
                   organizations |-> CountType(consolidatedChains, "ORGANIZATION"),
                   locations |-> CountType(consolidatedChains, "LOCATION")],
              entityChains |-> consolidatedChains]
    ELSE Null

\* storage.ts:119-171
EntityAnalysisData(analyses) ==
    IF Len(analyses) > 0
    THEN LET merged == MapValues(MergeChains(FlatMapChains(analyses), <<>>))
             consolidatedChains ==
                 SortDescBy(merged, [k \in DOMAIN merged |-> ConsolidatedSortKey(merged[k])])
         IN  [totalEntities |-> Len(consolidatedChains),
              totalMentions |-> SumSeq([k \in DOMAIN analyses |-> analyses[k].totalMentions]),
              totalScore |-> SumSeq([k \in DOMAIN analyses |-> analyses[k].totalScore]),
              entityBreakdown |->
                  [persons |-> CountType(consolidatedChains, "PERSON"),
                   organizations |-> CountType(consolidatedChains, "ORGANIZATION"),
                   locations |-> CountType(consolidatedChains, "LOCATION")],
              entityChains |-> consolidatedChains]
    ELSE Null

\* the rows of prisma.entityChain.createMany, storage.ts:191-205
EntityChainRows(entityAnalysisData) ==
    IF entityAnalysisData = Null THEN <<>>
    ELSE [k \in DOMAIN entityAnalysisData.entityChains |->
            LET chain == entityAnalysisData.entityChains[k] IN
            [entityType |-> chain.entity.type,
             normalizedText |-> chain.entity.normalizedText,
             totalMentions |-> chain.totalMentions,
             uniquePosts |-> 1,
             totalScore |-> chain.totalScore]]

\* the next source of the run is analysed (ner.ts:358-402)
AnalyzeEntities ==
    /\ consolidated = Null
    /\ Len(entityAnalyses) < Len(sources)
    /\ LET i == Len(entityAnalyses) + 1 IN
       entityAnalyses' = Append(entityAnalyses, analyzeEntities(i, sources[i]))
    /\ UNCHANGED <<pipeVars, sources, consolidated, jobVars, otherVars>>

\* storage.ts:113-215, called with the analyses gathered so far
SaveConsolidatedAnalysis ==
    /\ consolidated = Null
    /\ LET entityAnalysisData == EntityAnalysisData(entityAnalyses) IN
       consolidated' = [entityAnalysis |-> entityAnalysisData,
                        entityChainRows |-> EntityChainRows(entityAnalysisData)]
    /\ UNCHANGED <<pipeVars, sources, entityAnalyses, jobVars, otherVars>>

NextEnt == AnalyzeEntities \/ SaveConsolidatedAnalysis

\* analyzeEntities(data) on what fetchComments returned, ner.ts:358-402 (as
\* called at server.ts:174-179)
AnalyzeFetchedData ==
    /\ pc = "analyzed"
    /\ LET mentions == processCommentsForEntities(data.discussions) IN
       /\ sources' = <<mentions>>
       /\ entityAnalyses' = <<analyzeEntities(1, mentions)>>
    /\ pc' = "entities"
    /\ UNCHANGED <<raw, data, consolidated, jobVars, otherVars>>

NextNer == FetchPost \/ AnalyzeSentiment \/ AnalyzeFetchedData

\* Comment bodies for entity extraction: whitespace only, no entity, two
\* entities, three recognitions of two entities, and one body each on which
\* the scorer and the tagger throw.
NerTexts == {" ", "awful", "Paris great", "OpenAI, Paris; OpenAI awful",
             "Paris [scorer throws]", "Paris [tagger throws]"}

NerInput(c) ==
    [i \in DOMAIN c |-> CommentData(IdSeq[i], SentParent(i, c[i][1]), c[i][2], c[i][3], i)]

InitNer ==
    /\ pc = "fetch"
    /\ data = PostData
    /\ \E n \in 0..MaxComments : \E c \in [1..n -> BOOLEAN \X {-5, 10} \X NerTexts] :
          raw = NerInput(c)
    /\ EntIdle
    /\ JobIdle
    /\ NoCall

SpecNer == InitNer /\ [][NextNer]_vars

\* Entities: the same normalized text under two types, and another text.
Entities ==
    {[type |-> "PERSON", normalizedText |-> "paris", text |-> "Paris"],
     [type |-> "LOCATION", normalizedText |-> "paris", text |-> "Paris"],
     [type |-> "ORGANIZATION", normalizedText |-> "openai", text |-> "OpenAI"]}

\* <<score of the hosting comment, context of the mention>>
MentionKinds == {<<10, "good">>, <<15, "awful">>, <<-5, "great">>}

\* the mentions of source s among the events ev (each tagged with its source),
\* in order, stamped with their position in the source
SourceMentions(ev, s) ==
    LET own == SelectSeq(ev, LAMBDA e : e[1] = s)
    IN  [k \in DOMAIN own |->
            EntityMention(own[k][2], own[k][3][2], own[k][3][1], k, <<s, "p">>)]

InitEnt ==
    /\ pc = "idle"
    /\ raw = <<>>
    /\ data = PostData
    /\ \E n \in 0..MaxMentions :
       \E ev \in [1..n -> (1..NumSources) \X Entities \X MentionKinds] :
          sources = [s \in 1..NumSources |-> SourceMentions(ev, s)]
    /\ entityAnalyses = <<>>
    /\ consolidated = Null
    /\ JobIdle
    /\ NoCall

SpecEnt == InitEnt /\ [][NextEnt]_vars

(***************************************************************************)
(* server.ts processAnalysisJob, lines 102-312                             *)
(***************************************************************************)
\* the subreddits of the job's category, server.ts:144
Subreddits == 1..NumSources

\* Math.round(20 + (i / subreddits.length) * 60) for the 0-based index i, server.ts:154-159
LoopProgress(i) == 20 + ((2 * 60 * i + NumSources) \div (2 * NumSources))

\* what fetchComments returned for subreddit s (reddit.ts:96-109, 178-204)
FetchedData(s) ==
    [subreddit |-> s, discussions |-> <<[id |-> <<s, "p">>]>>, entityAnalysis |-> Null]

\* the locals of one invocation of processAnalysisJob, server.ts:102-151:
\* position, loop index, allData; fetched keeps what each iteration's
\* fetchComments gave, error is the exception on its way to the catch block
NewRun == [pc |-> "start", i |-> 0, allData |-> <<>>, fetched |-> <<>>, error |-> ""]

\* the outcomes of a call that returns, or throws when the run is flaky
Returns == IF flaky THEN BOOLEAN ELSE {TRUE}

\* control leaves the try block with an exception, server.ts:300
Throw(r, message) == [r EXCEPT !.pc = "catch", !.error = message]

\* server.ts:102-147; the status update (118-125), initializeReddit
\* (reddit.ts:47-59), the NER initialisation (131-136) and the progress update
\* (138-141) each return or throw
JobStart(j) ==
    /\ j \in DOMAIN job
    /\ run[j].pc = "start"
    /\ \E outcome \in IF flaky THEN {"ok", "updateThrows", "tokenThrows", "laterThrows"}
                      ELSE {"ok"} :
         CASE outcome = "ok" ->
                /\ job' = [job EXCEPT ![j].status = "running", ![j].progress = 20]
                /\ run' = [run EXCEPT ![j].pc = "loop", ![j].i = 1]
           [] outcome = "updateThrows" ->
                /\ job' = job
                /\ run' = [run EXCEPT ![j] = Throw(@, "database error")]
           [] outcome = "tokenThrows" ->
                /\ job' = [job EXCEPT ![j].status = "running", ![j].progress = 10]
                /\ run' = [run EXCEPT ![j] = Throw(@, "Failed to get access token")]
           [] outcome = "laterThrows" ->
                /\ job' = [job EXCEPT ![j].status = "running", ![j].progress = 10]
                /\ run' = [run EXCEPT ![j] = Throw(@, "database error")]
    /\ UNCHANGED <<pipeVars, entVars, db, now, response, otherVars>>

\* the body of the inner try of one iteration, server.ts:163-197: fetchComments
\* returns data or null, or the iteration throws; analyzeEntities returns or throws
SubredditStep_abortOnThrow(r, includeNER, fetched, nerOk) ==
    LET s == r.i
        d == FetchedData(s)
        withEntities ==
            IF includeNER /\ nerOk
            THEN [d EXCEPT !.entityAnalysis = analyzeEntities(s, sources[s])]
            ELSE d
    IN  IF fetched = "throw"
        THEN [r EXCEPT !.i = NumSources + 1, !.fetched = Append(@, fetched)]
        ELSE [r EXCEPT !.i = @ + 1,
                       !.fetched = Append(@, fetched),
                       !.allData = IF fetched = "data" THEN Append(@, withEntities) ELSE @]

SubredditStep(r, includeNER, fetched, nerOk) ==
    LET s == r.i
        d == FetchedData(s)
        withEntities ==
            IF includeNER /\ nerOk
            THEN [d EXCEPT !.entityAnalysis = analyzeEntities(s, sources[s])]
            ELSE d
    IN  [r EXCEPT !.i = @ + 1,
                  !.fetched = Append(@, fetched),
                  !.allData = IF fetched = "data" THEN Append(@, withEntities) ELSE @]

\* one iteration of the loop server.ts:152-198; the progress update (155-161)
\* stands outside the inner try, so its exception ends the loop
JobSubreddit(j) ==
    /\ j \in DOMAIN job
    /\ run[j].pc = "loop"
    /\ run[j].i <= NumSources
    /\ \E updateOk \in Returns, fetched \in {"data", "null", "throw"}, nerOk \in Returns :
         IF updateOk
         THEN /\ job' = [job EXCEPT ![j].progress = LoopProgress(run[j].i - 1),
                                    ![j].errorMessage = "Processing"]
              /\ run' = [run EXCEPT ![j] = SubredditStep(@, job[j].includeNER, fetched, nerOk)]
         ELSE /\ job' = job
              /\ run' = [run EXCEPT ![j] = Throw(@, "database error")]
    /\ UNCHANGED <<pipeVars, entVars, db, now, response, otherVars>>

RECURSIVE FlatMapDiscussions(_)
\* allData.flatMap((d) => d.discussions), server.ts:232
FlatMapDiscussions(allData) ==
    IF allData = <<>> THEN <<>>
    ELSE Head(allData).discussions \o FlatMapDiscussions(Tail(allData))

\* allData.find((d) => d.entityAnalysis)?.entityAnalysis, server.ts:233
FirstEntityAnalysis(allData) ==
    IF \E k \in DOMAIN allData : allData[k].entityAnalysis # Null
    THEN allData[CHOOSE k \in DOMAIN allData :
                    /\ allData[k].entityAnalysis # Null
                    /\ \A j \in 1..(k - 1) : allData[j].entityAnalysis = Null].entityAnalysis
    ELSE Null

\* server.ts:214-234
ConsolidatedData(allData) ==
    [subreddit |-> [k \in DOMAIN allData |-> allData[k].subreddit],
     discussions |-> FlatMapDiscussions(allData),
     entityAnalysis |-> FirstEntityAnalysis(allData)]

\* buildNetworkData, server.ts:34-99
buildNetworkData(d) ==
    [discussions |-> [k \in DOMAIN d.discussions |->
                         [id |-> d.discussions[k].id, subreddit |-> d.subreddit]],
     entities |-> IF d.entityAnalysis = Null THEN <<>> ELSE d.entityAnalysis.entityChains]

\* the row created by prisma.redditAnalysis.create, server.ts:248-261
NetworkRow(id, jobRow, consolidatedData, networkData) ==
    [id |-> id, key |-> jobRow.key, createdAt |-> now,
     subreddit |-> consolidatedData.subreddit,
     discussions |-> networkData.discussions,
     entityAnalysis |-> consolidatedData.entityAnalysis]

\* the row created by saveRedditData, storage.ts:85-108 (no entityAnalysis column)
RedditDataRow(id, jobRow, d) ==
    [id |-> id, key |-> jobRow.key, createdAt |-> now,
     subreddit |-> d.subreddit, discussions |-> d.discussions,
     entityAnalysis |-> Null]

\* the entityChain rows of one analysis, server.ts:264-282
ChainRows(id, entities) ==
    [k \in DOMAIN entities |-> [analysisId |-> id, chain |-> entities[k]]]

\* the rows written when the create of entity number failed rejects: the
\* creates run concurrently under Promise.all (server.ts:264-282), the others are kept
ChainRowsWithout(id, entities, failed) ==
    SelectSeq(ChainRows(id, entities), LAMBDA row : row.chain # entities[failed])

\* server.ts:200-297, after the loop: consolidate, save, complete. failAt is
\* the awaited call that throws: the progress update (200-206), the analysis
\* create (248-261), an entity chain create (264-282), saveRedditData (285),
\* the final status update (288-297), or none
JobConsolidate(j) ==
    /\ j \in DOMAIN job
    /\ run[j].pc = "loop"
    /\ run[j].i > NumSources
    /\ \E failAt \in IF flaky THEN {"none", "update", "create", "chains", "save", "complete"}
                     ELSE {"none"} :
       LET allData == run[j].allData
           consolidatedData == ConsolidatedData(allData)
           networkData == buildNetworkData(consolidatedData)
           id == Len(db.analyses) + 1
           row == NetworkRow(id, job[j], consolidatedData, networkData)
           consolidating == [job EXCEPT ![j].progress = 80,
                                        ![j].errorMessage = "Consolidating results..."]
           saving == [job EXCEPT ![j].progress = 90,
                                 ![j].errorMessage = "Saving results..."]
       IN  CASE failAt = "update" ->
                  /\ job' = job
                  /\ db' = db
                  /\ run' = [run EXCEPT ![j] = Throw(@, "database error")]
             [] failAt # "update" /\ Len(allData) = 0 ->
                  /\ job' = consolidating
                  /\ db' = db
                  /\ run' = [run EXCEPT ![j] = Throw(@, "No data collected from any subreddit")]
             [] failAt = "create" /\ Len(allData) > 0 ->
                  /\ job' = saving
                  /\ db' = db
                  /\ run' = [run EXCEPT ![j] = Throw(@, "database error")]
             [] failAt = "chains" /\ Len(allData) > 0 ->
                  /\ Len(networkData.entities) > 0
                  /\ \E failed \in DOMAIN networkData.entities :
                       db' = [analyses |-> Append(db.analyses, row),
                              entityChains |->
                                db.entityChains \o
                                ChainRowsWithout(id, networkData.entities, failed)]
                  /\ job' = saving
                  /\ run' = [run EXCEPT ![j] = Throw(@, "database error")]
             [] failAt = "save" /\ Len(allData) > 0 ->
                  /\ db' = [analyses |-> Append(db.analyses, row),
                            entityChains |->
                              db.entityChains \o ChainRows(id, networkData.entities)]
                  /\ job' = saving
                  /\ run' = [run EXCEPT ![j] = Throw(@, "database error")]
             [] failAt = "complete" /\ Len(allData) > 0 ->
                  /\ db' = [analyses |->
                              db.analyses \o
                              <<row, RedditDataRow(id + 1, job[j], consolidatedData)>>,
                            entityChains |->
                              db.entityChains \o ChainRows(id, networkData.entities)]
                  /\ job' = saving
                  /\ run' = [run EXCEPT ![j] = Throw(@, "database error")]
             [] failAt = "none" /\ Len(allData) > 0 ->
                  /\ db' = [analyses |->
                              db.analyses \o
                              <<row, RedditDataRow(id + 1, job[j], consolidatedData)>>,
                            entityChains |->
                              db.entityChains \o ChainRows(id, networkData.entities)]
                  /\ job' = [job EXCEPT ![j].status = "completed", ![j].progress = 100,
                                        ![j].errorMessage = "Analysis completed successfully",
                                        ![j].resultIds = <<id>>]
                  /\ run' = [run EXCEPT ![j].pc = "done"]
    /\ UNCHANGED <<pipeVars, entVars, now, response, otherVars>>

\* variant: the catch block puts the job back in the queue
JobCatch_requeue(j) ==
    /\ j \in DOMAIN job
    /\ run[j].pc = "catch"
    /\ \E handlerOk \in Returns :
         job' = IF handlerOk
                THEN [job EXCEPT ![j].status = "pending", ![j].errorMessage = run[j].error]
                ELSE job
    /\ run' = [run EXCEPT ![j].pc = "done"]
    /\ UNCHANGED <<pipeVars, entVars, db, now, response, otherVars>>

\* the catch block, server.ts:300-311: the update that marks the job failed
\* returns or throws; its exception rejects the promise, which is only logged
\* (server.ts:424-426)
JobCatch(j) ==
    /\ j \in DOMAIN job
    /\ run[j].pc = "catch"
    /\ \E handlerOk \in Returns :
         job' = IF handlerOk
                THEN [job EXCEPT ![j].status = "failed", ![j].errorMessage = run[j].error]
                ELSE job
    /\ run' = [run EXCEPT ![j].pc = "done"]
    /\ UNCHANGED <<pipeVars, entVars, db, now, response, otherVars>>

\* the locals of the command-line run() when it enters its loop, index.ts:53-75;
\* saved lists the files written by saveToFile (reddit.ts:211-220)
NewCliRun(enableEntityAnalysis) ==
    [pc |-> "cli", i |-> 1, enableEntityAnalysis |-> enableEntityAnalysis,
     fetched |-> <<>>, saved |-> <<>>]

\* one iteration of the loop of run(), index.ts:75-145: fetchComments returns
\* data or null or throws, saveToFile returns or throws (both inside the outer
\* try), the entity analysis returns or throws (inside the inner try)
CliStep(r, fetched, saveOk, nerOk) ==
    [r EXCEPT !.i = @ + 1,
              !.fetched = Append(@, fetched),
              !.saved = IF fetched = "data" /\ saveOk
                        THEN Append(@, [subreddit |-> r.i,
                                        entityAnalysis |-> r.enableEntityAnalysis /\ nerOk])
                        ELSE @]

CliSubreddit ==
    /\ job = <<>>
    /\ Len(run) = 1
    /\ run[1].pc = "cli"
    /\ run[1].i <= NumSources
    /\ \E fetched \in {"data", "null", "throw"}, saveOk \in Returns, nerOk \in Returns :
         run' = [run EXCEPT ![1] = CliStep(@, fetched, saveOk, nerOk)]
    /\ UNCHANGED <<pipeVars, entVars, job, db, now, response, otherVars>>

\* after the loop, index.ts:147-167: process.exit(0)
CliExit ==
    /\ job = <<>>
    /\ Len(run) = 1
    /\ run[1].pc = "cli"
    /\ run[1].i > NumSources
    /\ run' = [run EXCEPT ![1].pc = "exit"]
    /\ UNCHANGED <<pipeVars, entVars, job, db, now, response, otherVars>>

NextJob ==
    \/ \E j \in DOMAIN job : JobStart(j) \/ JobSubreddit(j) \/ JobConsolidate(j) \/ JobCatch(j)
    \/ CliSubreddit
    \/ CliExit

\* the job row created at server.ts:410-421
NewJob(key, includeNER) ==
    [key |-> key, status |-> "pending", progress |-> 0, includeNER |-> includeNER,
     errorMessage |-> "", resultIds |-> <<>>]

InitJob ==
    /\ pc = "idle"
    /\ raw = <<>>
    /\ data = PostData
    /\ \E n \in 0..MaxJobMentions :
       \E ev \in [1..n -> (1..NumSources) \X Entities \X {<<10, "good">>, <<15, "awful">>}] :
          sources = [s \in 1..NumSources |-> SourceMentions(ev, s)]
    /\ entityAnalyses = <<>>
    /\ consolidated = Null
    /\ \E ner \in BOOLEAN :
          \/ job = <<NewJob("k1", ner)>> /\ run = <<NewRun>>
          \/ job = <<>> /\ run = <<NewCliRun(ner)>>
    /\ db = EmptyDb
    /\ now = 0
    /\ response = Null
    /\ call = Null
    /\ lastIndex = FreshIndex
    /\ flaky = TRUE

SpecJob == InitJob /\ [][NextJob]_vars

(***************************************************************************)
(* server.ts POST /api/analyze (315-446) and GET /api/job/:id (449-525)    *)
(***************************************************************************)
\* the combinations of category, query, timeframe and minPostScore of a request
Keys == {"k1", "k2"}

\* 24 * 60 * 60 * 1000 ms in hours, server.ts:358
CacheWindow == 24

\* variant: the where clause has no createdAt condition
RecentAnalyses_anyAge(key) ==
    {k \in DOMAIN db.analyses : db.analyses[k].key = key}

\* the rows matched by the where clause of findFirst, server.ts:351-359
RecentAnalyses(key) ==
    {k \in DOMAIN db.analyses :
        /\ db.analyses[k].key = key
        /\ db.analyses[k].createdAt >= now - CacheWindow}

\* orderBy createdAt desc, server.ts:360-369: of the rows created in the same
\* hour the one inserted last has the latest createdAt
LatestAnalysis(key) ==
    CHOOSE k \in RecentAnalyses(key) : \A other \in RecentAnalyses(key) : other <= k

\* include EntityChain orderBy totalScore desc (take 50), server.ts:361-368, 470-477
EntityChainsOf(id) ==
    LET rows == SelectSeq(db.entityChains, LAMBDA row : row.analysisId = id)
        chains == [k \in DOMAIN rows |-> rows[k].chain]
    IN  SortDescBy(chains, [k \in DOMAIN chains |-> chains[k].totalScore])

\* the networkData object of both handlers, server.ts:375-398 and 481-501
AnalysisResponse(row, withChains) ==
    [id |-> row.id, key |-> row.key, createdAt |-> row.createdAt,
     discussions |-> row.discussions, subreddits |-> row.subreddit,
     entityAnalysis |-> row.entityAnalysis,
     entities |-> IF withChains THEN EntityChainsOf(row.id) ELSE <<>>]

\* POST /api/analyze, server.ts:315-446
PostAnalyze(key, includeEntities) ==
    /\ Len(job) < MaxJobs
    /\ \E outcome \in IF flaky THEN {"ok", "invalid", "error"} ELSE {"ok", "invalid"} :
         CASE outcome = "invalid" ->
                /\ response' = [success |-> FALSE, code |-> 400]
                /\ UNCHANGED <<job, run>>
           [] outcome = "error" ->
                /\ response' = [success |-> FALSE, code |-> 500]
                /\ UNCHANGED <<job, run>>
           [] outcome = "ok" /\ RecentAnalyses(key) # {} ->
                /\ response' = [success |-> TRUE, cached |-> TRUE,
                                data |-> AnalysisResponse(db.analyses[LatestAnalysis(key)],
                                                          includeEntities)]
                /\ UNCHANGED <<job, run>>
           [] outcome = "ok" /\ RecentAnalyses(key) = {} ->
                /\ job' = Append(job, NewJob(key, includeEntities))
                /\ run' = Append(run, NewRun)
                /\ response' = [success |-> TRUE, cached |-> FALSE, jobId |-> Len(job) + 1]
    /\ UNCHANGED <<pipeVars, entVars, db, now, otherVars>>

\* GET /api/job/:id, server.ts:449-525
JobResponse(j) ==
    IF j \notin DOMAIN job
    THEN [success |-> FALSE, code |-> 404]
    ELSE IF job[j].status = "completed" /\ Len(job[j].resultIds) > 0
              /\ job[j].resultIds[1] \in DOMAIN db.analyses
         THEN [success |-> TRUE, status |-> "completed",
               data |-> AnalysisResponse(db.analyses[job[j].resultIds[1]], job[j].includeNER)]
         ELSE [success |-> TRUE, status |-> job[j].status, progress |-> job[j].progress,
               message |-> IF job[j].errorMessage = "" THEN "Analysis in progress..."
                           ELSE job[j].errorMessage]

GetJob(j) ==
    /\ response' = JobResponse(j)
    /\ UNCHANGED <<pipeVars, entVars, job, run, db, now, otherVars>>

\* time passes, twelve hours at a step
Tick ==
    /\ now < 12 * MaxTicks
    /\ now' = now + 12
    /\ UNCHANGED <<pipeVars, entVars, job, run, db, response, otherVars>>

NextApi ==
    \/ \E key \in Keys, includeEntities \in BOOLEAN : PostAnalyze(key, includeEntities)
    \/ \E j \in 0..MaxJobs : GetJob(j)
    \/ Tick
    \/ \E j \in DOMAIN job : JobStart(j) \/ JobSubreddit(j) \/ JobConsolidate(j) \/ JobCatch(j)

\* the server after start-up: empty tables, no request served yet; every
\* subreddit holds one discussion that mentions one organization; the
\* database, the token endpoint and the NER service answer every call (a
\* fetch may still fail); SpecJob covers their failures
InitApi ==
    /\ pc = "idle"
    /\ raw = <<>>
    /\ data = PostData
    /\ sources = [s \in 1..NumSources |->
                    <<EntityMention([type |-> "ORGANIZATION", normalizedText |-> "openai",
                                     text |-> "OpenAI"], "good", 10, 1, <<s, "p">>)>>]
    /\ entityAnalyses = <<>>
    /\ consolidated = Null
    /\ JobIdle
    /\ NoCall

SpecApi == InitApi /\ [][NextApi]_vars

\* an analysis saved by an earlier job for key, tick twelve-hour steps after
\* the server's start (storage.ts:85-108 with createdAt as given)
StoredRow(id, key, tick) ==
    [RedditDataRow(id, [key |-> key], ConsolidatedData(<<FetchedData(1)>>))
        EXCEPT !.createdAt = 12 * tick]

NextCache ==
    \/ \E key \in Keys, includeEntities \in BOOLEAN : PostAnalyze(key, includeEntities)
    \/ \E j \in 0..MaxJobs : GetJob(j)
    \/ Tick

\* the request handlers alone, over a store that earlier jobs have filled:
\* up to MaxStored analyses in the order of their creation, the clock at the
\* creation of the last one
InitCache ==
    /\ pc = "idle"
    /\ raw = <<>>
    /\ data = PostData
    /\ EntIdle
    /\ job = <<>>
    /\ run = <<>>
    /\ response = Null
    /\ \E n \in 0..MaxStored : \E c \in [1..n -> Keys \X (0..MaxTicks)] :
          /\ \A k \in 1..(n - 1) : c[k][2] <= c[k + 1][2]
          /\ now = IF n = 0 THEN 0 ELSE 12 * c[n][2]
          /\ db = [analyses |-> [k \in 1..n |-> StoredRow(k, c[k][1], c[k][2])],
                   entityChains |-> <<>>]
    /\ NoCall

SpecCache == InitCache /\ [][NextCache]_vars

(***************************************************************************)
(* preprocessing.ts detectSarcasm, lines 153-165 and 190-221               *)
(***************************************************************************)
\* SARCASM_INDICATORS.length, preprocessing.ts:195
NumIndicators == 11

\* The characters of the texts: a quote, an asterisk, a lower-case and an
\* upper-case letter, an exclamation mark and a full stop. No text over them
\* holds a word of the patterns without the g flag (preprocessing.ts:154-159,
\* 164, 208), which therefore never match.
Alphabet == {"\"", "*", "a", "B", "!", "."}

IsUpper(c) == c = "B"

IsLower(c) == c = "a"

\* \w
IsWord(c) == IsUpper(c) \/ IsLower(c)

\* \b in front of the word character at position p
WordStart(text, p) == IsWord(text[p]) /\ (p = 1 \/ ~IsWord(text[p - 1]))

\* the last position of the word that holds position p
WordEnd(text, p) ==
    CHOOSE e \in p..Len(text) :
        /\ \A k \in p..e : IsWord(text[k])
        /\ e = Len(text) \/ ~IsWord(text[e + 1])

\* where the match of a pattern that starts at position p ends, 0 when the
\* pattern does not match there (preprocessing.ts:160-163)
MatchEnd(pattern, text, p) ==
    CASE pattern = 7 -> IF text[p] = "\"" THEN p ELSE 0
      [] pattern = 8 ->
            IF text[p] = "*" /\ \E q \in (p + 1)..Len(text) : text[q] = "*"
            THEN CHOOSE q \in (p + 1)..Len(text) :
                    text[q] = "*" /\ \A r \in (q + 1)..Len(text) : text[r] # "*"
            ELSE 0
      [] pattern = 9 ->
            IF /\ WordStart(text, p)
               /\ IsUpper(text[p])
               /\ \E k \in (p + 1)..WordEnd(text, p) : IsUpper(text[k])
            THEN WordEnd(text, p) ELSE 0
      [] pattern = 10 ->
            IF /\ WordStart(text, p)
               /\ IsLower(text[p])
               /\ \E k \in p..WordEnd(text, p) : IsUpper(text[k])
               /\ \A k \in p..WordEnd(text, p) : IsUpper(text[k]) => IsLower(text[k - 1])
            THEN WordEnd(text, p) ELSE 0

\* RegExp.prototype.test of a pattern with the g flag: the search starts at
\* lastIndex; a match moves lastIndex to its end, a failure resets it to 0
Test(pattern, text, index) ==
    LET starts == {p \in (index + 1)..Len(text) : MatchEnd(pattern, text, p) > 0} IN
    IF starts = {}
    THEN [matched |-> FALSE, lastIndex |-> 0]
    ELSE LET first == CHOOSE p \in starts : \A q \in starts : p <= q
         IN  [matched |-> TRUE, lastIndex |-> MatchEnd(pattern, text, first)]

\* /(!{2,}|\?{2,})/g.test(text) on a pattern created by the call, preprocessing.ts:203
RepeatedMarks(text) == \E p \in 1..(Len(text) - 1) : text[p] = "!" /\ text[p + 1] = "!"

\* /\.{3,}/g.test(text) on a pattern created by the call, preprocessing.ts:207
Ellipsis(text) ==
    \E p \in 1..(Len(text) - 2) : text[p] = "." /\ text[p + 1] = "." /\ text[p + 2] = "."

\* preprocessing.ts:190-221 with the patterns' lastIndex as found; sarcasmScore
\* is counted in halves, confidence is the quotient (sarcasmScore / maxScore) * 100
detectSarcasm(text, index) ==
    LET tested == [p \in GlobalPatterns |-> Test(p, text, index[p])]
        halves == 2 * Cardinality({p \in GlobalPatterns : tested[p].matched})
                    + (IF RepeatedMarks(text) THEN 1 ELSE 0)
                    + (IF Ellipsis(text) THEN 1 ELSE 0)
    IN  [result |-> [isSarcastic |-> halves * 100 > 30 * 2 * NumIndicators,
                     confidence |-> Frac(halves * 100, 2 * NumIndicators)],
         lastIndex |-> [p \in GlobalPatterns |-> tested[p].lastIndex]]

\* one call of detectSarcasm (as preprocessing.ts:245 makes for every text)
CallDetectSarcasm ==
    /\ \E n \in 0..MaxTextLen : \E text \in [1..n -> Alphabet] :
          LET outcome == detectSarcasm(text, lastIndex) IN
          /\ call' = [fn |-> "detectSarcasm", arg |-> text, returned |-> TRUE,
                      result |-> outcome.result]
          /\ lastIndex' = outcome.lastIndex
    /\ UNCHANGED <<pipeVars, entVars, jobVars, flaky>>

NextSarcasm == CallDetectSarcasm

\* the module has just been loaded, detectSarcasm was not called yet
InitSarcasm ==
    /\ pc = "idle"
    /\ raw = <<>>
    /\ data = PostData
    /\ EntIdle
    /\ JobIdle
    /\ NoCall

SpecSarcasm == InitSarcasm /\ [][NextSarcasm]_vars

(***************************************************************************)
(* Helper functions called on their own                                    *)
(***************************************************************************)
\* a call that has not returned yet
Pending(fn, arg) == [fn |-> fn, arg |-> arg, returned |-> FALSE, result |-> Null]

\* ner.ts:93
CallDeduplicateEntities ==
    /\ call # Null
    /\ call.fn = "deduplicateEntities"
    /\ ~call.returned
    /\ call' = [call EXCEPT !.returned = TRUE, !.result = deduplicateEntities(call.arg)]
    /\ UNCHANGED <<pipeVars, entVars, jobVars, lastIndex, flaky>>

\* sentiment.ts:5-11
CallGetSentimentLabel ==
    /\ call # Null
    /\ call.fn = "getSentimentLabel"
    /\ ~call.returned
    /\ call' = [call EXCEPT !.returned = TRUE, !.result = getSentimentLabel(call.arg)]
    /\ UNCHANGED <<pipeVars, entVars, jobVars, lastIndex, flaky>>

\* ner.ts:229-235
CallClassifySentiment ==
    /\ call # Null
    /\ call.fn = "classifySentiment"
    /\ ~call.returned
    /\ call' = [call EXCEPT !.returned = TRUE, !.result = classifySentiment(call.arg)]
    /\ UNCHANGED <<pipeVars, entVars, jobVars, lastIndex, flaky>>

\* sentiment.ts:25-83
CallCalculateWeightedAverageSentiment ==
    /\ call # Null
    /\ call.fn = "calculateWeightedAverageSentiment"
    /\ ~call.returned
    /\ call' = [call EXCEPT !.returned = TRUE,
                            !.result = calculateWeightedAverageSentiment(call.arg)]
    /\ UNCHANGED <<pipeVars, entVars, jobVars, lastIndex, flaky>>

\* ner.ts:282-353
CallBuildEntityChains ==
    /\ call # Null
    /\ call.fn = "buildEntityChains"
    /\ ~call.returned
    /\ call' = [call EXCEPT !.returned = TRUE, !.result = buildEntityChains(call.arg)]
    /\ UNCHANGED <<pipeVars, entVars, jobVars, lastIndex, flaky>>

NextFn ==
    \/ CallDeduplicateEntities
    \/ CallGetSentimentLabel
    \/ CallClassifySentiment
    \/ CallCalculateWeightedAverageSentiment
    \/ CallBuildEntityChains

\* a comment list of any mix of scores and polarities
CommentList(c) == [i \in DOMAIN c |-> CommentData(IdSeq[i], PostRef, c[i][1], c[i][2], i)]

\* a mention list of one discussion
MentionList(ev) ==
    [k \in DOMAIN ev |-> EntityMention(ev[k][1], ev[k][2][2], ev[k][2][1], k, "p")]

\* Compound scores: every hundredth of [-1, 1] and the millionths next to the
\* two thresholds.
Compounds ==
    {Frac(n, 100) : n \in -100..100}
        \cup {Frac(n, 1000000) : n \in {-50001, -49999, 49999, 50001}}

\* Recognitions handed to deduplicateEntities: one key met with two spellings,
\* one normalized text under two types, another key.
RawEntities ==
    Entities \cup {[type |-> "PERSON", normalizedText |-> "paris", text |-> "PARIS!"]}

InitFn ==
    /\ pc = "idle"
    /\ raw = <<>>
    /\ data = PostData
    /\ EntIdle
    /\ JobIdle
    /\ lastIndex = FreshIndex
    /\ flaky = FALSE
    /\ \/ \E n \in 0..MaxEntities : \E entities \in [1..n -> RawEntities] :
             call = Pending("deduplicateEntities", entities)
       \/ \E fn \in {"getSentimentLabel", "classifySentiment"} : \E compound \in Compounds :
             call = Pending(fn, compound)
       \/ \E n \in 0..MaxComments : \E c \in [1..n -> Scores \X Texts] :
             call = Pending("calculateWeightedAverageSentiment", CommentList(c))
       \/ \E n \in 0..MaxMentions : \E ev \in [1..n -> Entities \X MentionKinds] :
             call = Pending("buildEntityChains", MentionList(ev))

SpecFn == InitFn /\ [][NextFn]_vars

(***************************************************************************)
(* Properties                                                              *)
(***************************************************************************)
RECURSIVE SumFn(_, _)
\* sum of f[x] over the x in S
SumFn(f, S) ==
    IF S = {} THEN 0
    ELSE LET x == CHOOSE y \in S : TRUE IN f[x] + SumFn(f, S \ {x})

Positive(cs) == {i \in DOMAIN cs : cs[i].score > 0}

Analyzed(k) == pc = "analyzed" /\ k \in DOMAIN data.discussions

Discussions == 1..Len(data.discussions)

\* C1: when some comment of the list has score > 0, each field of the result is
\* sum(field_i * score_i) / sum(score_i) over the comments with score > 0 only,
\* and replacing the sentiment of a comment with score <= 0 leaves it unchanged.
C1_WeightedOverPositive ==
    \A k \in Discussions : Analyzed(k) =>
        LET d == data.discussions[k]
            cs == RootComments(d)
            res == d.sentiment.overall
        IN  Positive(cs) # {} =>
              /\ \A f \in Fields :
                    /\ res[f][2] > 0
                    /\ FracEq(res[f],
                          Frac(SumFn([i \in DOMAIN cs |-> Polarity(cs[i].text)[f] * cs[i].score],
                                     Positive(cs)),
                               100 * SumFn([i \in DOMAIN cs |-> cs[i].score], Positive(cs))))
              /\ \A i \in DOMAIN cs \ Positive(cs) : \A t \in Texts : \A f \in Fields :
                    FracEq(calculateWeightedAverageSentiment([cs EXCEPT ![i].text = t])[f],
                           res[f])

\* scores [10,-5,0] with compounds [0.5,0.8,-0.9] give compound 0.5
C1_Witness ==
    /\ Analyzed(1)
    /\ LET d == data.discussions[1]
           cs == RootComments(d)
       IN  /\ Len(cs) = 3
           /\ <<cs[1].score, cs[2].score, cs[3].score>> = <<10, -5, 0>>
           /\ <<cs[1].text, cs[2].text, cs[3].text>> = <<"good", "great", "awful">>
           /\ FracEq(d.sentiment.overall.compound, Frac(50, 100))

\* C2: for a non-empty list whose scores are all <= 0 the result is, per field,
\* the unweighted arithmetic mean over all comments of the list.
C2_UnweightedFallback ==
    \A k \in Discussions : Analyzed(k) =>
        LET d == data.discussions[k]
            cs == RootComments(d)
            res == d.sentiment.overall
        IN  (Len(cs) > 0 /\ Positive(cs) = {}) =>
              \A f \in Fields :
                 /\ res[f][2] > 0
                 /\ FracEq(res[f],
                       Frac(SumFn([i \in DOMAIN cs |-> Polarity(cs[i].text)[f]], DOMAIN cs),
                            100 * Len(cs)))

C2_Witness ==
    /\ Analyzed(1)
    /\ LET d == data.discussions[1]
           cs == RootComments(d)
       IN  /\ Len(cs) = 2
           /\ <<cs[1].score, cs[2].score>> = <<-5, 0>>
           /\ <<cs[1].text, cs[2].text>> = <<"great", "awful">>
           /\ FracEq(d.sentiment.overall.compound, Frac(-5, 100))

Built(k) == pc # "fetch" /\ k \in DOMAIN data.discussions

\* C3: the flattened tree holds every input comment exactly once, for any
\* input list (any parentId values).
C3_EveryCommentOnce ==
    \A k \in Discussions : Built(k) =>
        LET flat == Flattened(data.discussions[k])
        IN  /\ Len(flat) = Len(raw)
            /\ Range(flat) = DOMAIN raw

Orphan(all, i) ==
    /\ ~IsAbsent(all[i].parentId)
    /\ ~StartsWithT3(all[i].parentId)
    /\ StripT1(all[i].parentId) \notin {all[j].id : j \in DOMAIN all}

Occurrences(list, x) == Cardinality({j \in DOMAIN list : list[j] = x})

\* C4: a comment whose parentId is not a discussion reference and names no
\* comment of the input list is placed in the root list (once), never dropped.
C4_OrphanIsRoot ==
    \A k \in Discussions : Built(k) =>
        \A i \in DOMAIN raw :
            Orphan(raw, i) => Occurrences(data.discussions[k].comments, i) = 1

C4_Witness ==
    /\ Built(1)
    /\ Len(raw) = 2
    /\ raw[1].parentId = CommentRef("z")
    /\ raw[2].parentId = CommentRef(raw[1].id)
    /\ data.discussions[1].comments = <<1>>
    /\ data.discussions[1].nodes[1].replies = <<2>>

\* C5: the discussion-level sentiment is the weighted average over all
\* comments of the discussion's tree flattened (roots and nested replies).
C5_DiscussionOverFlattened ==
    \A k \in Discussions : Analyzed(k) =>
        LET d == data.discussions[k]
            flat == Flattened(d)
            all == [j \in DOMAIN flat |-> d.nodes[flat[j]]]
        IN  \A f \in Fields :
               FracEq(d.sentiment.overall[f], calculateWeightedAverageSentiment(all)[f])

\* C6: after analyzeRedditData every comment reachable from the root comments
\* through replies, at any depth, has its sentiment set.
C6_EveryReachableScored ==
    \A k \in Discussions : Analyzed(k) =>
        LET d == data.discussions[k]
        IN  \A i \in Range(Flattened(d)) :
               /\ d.nodes[i].sentiment.label \in {"positive", "negative", "neutral"}
               /\ d.nodes[i].sentiment = analyzeCommentSentiment(d.nodes[i])

\* a chain root -> reply -> reply-to-reply, all three scored
C6_Witness ==
    /\ Analyzed(1)
    /\ LET d == data.discussions[1]
       IN  /\ d.comments = <<1>>
           /\ d.nodes[1].replies = <<2>>
           /\ d.nodes[2].replies = <<3>>
           /\ d.nodes[3].sentiment.label = "negative"


\* keys and totals of a list of chains
KeyOf(chain) == <<chain.entity.type, chain.entity.normalizedText>>

\* <<s, k>> for chain k of the analysis number s
ChainRefs(analyses) ==
    UNION {{<<s, k>> : k \in DOMAIN analyses[s].entityChains} : s \in DOMAIN analyses}

RefsOfKey(analyses, key) ==
    {r \in ChainRefs(analyses) : KeyOf(analyses[r[1]].entityChains[r[2]]) = key}

SourceKeys(analyses) ==
    {KeyOf(analyses[r[1]].entityChains[r[2]]) : r \in ChainRefs(analyses)}

\* every key of the analyses has exactly one chain in merged, carrying the
\* sums of the per-source totalMentions and totalScore; no other chain
MergedByKey(merged, analyses) ==
    /\ \A key \in SourceKeys(analyses) :
          Cardinality({j \in DOMAIN merged : KeyOf(merged[j]) = key}) = 1
    /\ \A j \in DOMAIN merged :
          LET refs == RefsOfKey(analyses, KeyOf(merged[j])) IN
          /\ refs # {}
          /\ merged[j].totalMentions =
                SumFn([r \in refs |-> analyses[r[1]].entityChains[r[2]].totalMentions], refs)
          /\ merged[j].totalScore =
                SumFn([r \in refs |-> analyses[r[1]].entityChains[r[2]].totalScore], refs)

Saved == consolidated # Null /\ consolidated.entityAnalysis # Null

\* C7: saveConsolidatedAnalysis merges the chains of all per-source analyses
\* by (type, normalizedText): one consolidated chain per key, with the sums of
\* the per-source totalMentions and totalScore, counted once in totalEntities.
C7_MergedByKey ==
    Saved =>
        /\ MergedByKey(consolidated.entityAnalysis.entityChains, entityAnalyses)
        /\ consolidated.entityAnalysis.totalEntities =
              Cardinality(SourceKeys(entityAnalyses))

\* one entity in two sources, totalScore 10 and 15, merged to exactly 25
C7_Witness ==
    /\ Saved
    /\ Len(entityAnalyses) = 2
    /\ Len(entityAnalyses[1].entityChains) = 1
    /\ Len(entityAnalyses[2].entityChains) = 1
    /\ KeyOf(entityAnalyses[1].entityChains[1]) = KeyOf(entityAnalyses[2].entityChains[1])
    /\ entityAnalyses[1].entityChains[1].totalScore = 10
    /\ entityAnalyses[2].entityChains[1].totalScore = 15
    /\ consolidated.entityAnalysis.totalEntities = 1
    /\ consolidated.entityAnalysis.entityChains[1].totalScore = 25

SourcesWithEntities(allData) ==
    SelectSeq(allData, LAMBDA d : d.entityAnalysis # Null)

\* C8: the consolidated result of processAnalysisJob over N >= 2 successful
\* sources with entity analysis holds the chains of all N sources, merged by key.
C8_JobMergesAllSources ==
    \A j \in DOMAIN job : job[j].status = "completed" =>
        LET analyses == [k \in DOMAIN SourcesWithEntities(run[j].allData) |->
                            SourcesWithEntities(run[j].allData)[k].entityAnalysis]
            result == db.analyses[job[j].resultIds[1]]
        IN  Len(analyses) >= 2 =>
               /\ result.entityAnalysis # Null
               /\ MergedByKey(result.entityAnalysis.entityChains, analyses)

ChainConsistent(chain) ==
    /\ chain.totalMentions = Len(chain.sentimentTrend)
    /\ chain.totalScore =
          SumFn([k \in DOMAIN chain.sentimentTrend |-> chain.sentimentTrend[k].score],
                DOMAIN chain.sentimentTrend)

\* C9: for every chain of buildEntityChains and every merged chain of
\* saveConsolidatedAnalysis, totalMentions = sentimentTrend.length and
\* totalScore = sum of sentimentTrend[i].score (negative scores included).
C9_ChainTotals ==
    /\ \A r \in ChainRefs(entityAnalyses) :
          ChainConsistent(entityAnalyses[r[1]].entityChains[r[2]])
    /\ Saved =>
          \A j \in DOMAIN consolidated.entityAnalysis.entityChains :
             ChainConsistent(consolidated.entityAnalysis.entityChains[j])

\* a chain merged from two sources, one of its mentions with a negative score
C9_Witness ==
    /\ Saved
    /\ \E j \in DOMAIN consolidated.entityAnalysis.entityChains :
          LET chain == consolidated.entityAnalysis.entityChains[j] IN
          /\ Cardinality({r[1] : r \in RefsOfKey(entityAnalyses, KeyOf(chain))}) = 2
          /\ chain.totalMentions = 3
          /\ \E k \in DOMAIN chain.sentimentTrend : chain.sentimentTrend[k].score < 0
          /\ chain.totalScore = 15

NonIncreasing(chains) ==
    \A j \in DOMAIN chains : \A k \in DOMAIN chains :
        j < k => chains[j].totalScore >= chains[k].totalScore

\* C10: buildEntityChains and saveConsolidatedAnalysis return their chains in
\* non-increasing order of totalScore (not of the mention count).
C10_RankedByTotalScore ==
    /\ \A s \in DOMAIN entityAnalyses : NonIncreasing(entityAnalyses[s].entityChains)
    /\ Saved => NonIncreasing(consolidated.entityAnalysis.entityChains)

\* one mention of score 15 ranks before two mentions totalling 5, although the
\* second entity was met first
C10_Witness ==
    /\ Len(entityAnalyses) >= 1
    /\ Len(sources[1]) = 3
    /\ Len(entityAnalyses[1].entityChains) = 2
    /\ LET first == entityAnalyses[1].entityChains[1]
           second == entityAnalyses[1].entityChains[2]
       IN  /\ first.totalMentions = 1 /\ first.totalScore = 15
           /\ second.totalMentions = 2 /\ second.totalScore = 5
           /\ KeyOf(second) = MentionKey(sources[1][1])

TrendScoreSum(chain) ==
    SumFn([k \in DOMAIN chain.sentimentTrend |-> chain.sentimentTrend[k].score],
          DOMAIN chain.sentimentTrend)

IsNeutralDefault(avg) ==
    /\ \A f \in SentimentFields : avg[f][1] = 0 /\ avg[f][2] > 0
    /\ avg.overall = "neutral"

MentionsOf(s, chain) == {k \in DOMAIN sources[s] : MentionKey(sources[s][k]) = KeyOf(chain)}

\* C12: uniquePosts of a chain of buildEntityChains equals the number of
\* distinct postId values among the chain's mention events.
C12_UniquePostsByPostId ==
    \A r \in ChainRefs(entityAnalyses) :
        LET chain == entityAnalyses[r[1]].entityChains[r[2]] IN
        chain.uniquePosts =
            Cardinality({sources[r[1]][k].postId : k \in MentionsOf(r[1], chain)})

\* the mention events of comment i of discussion d: one per extracted entity,
\* with the comment's score and timestamp and the discussion's id
ExpectedMentions(d, i) ==
    IF IsBlank(d.nodes[i].text) THEN {}
    ELSE {[entity |-> e, score |-> d.nodes[i].score,
           timestamp |-> d.nodes[i].timestamp, postId |-> d.id] :
             e \in Range(extractEntities(d.nodes[i].text))}

MentionEvent(m) ==
    [entity |-> m.entity, score |-> m.score, timestamp |-> m.timestamp, postId |-> m.postId]

\* C13: processCommentsForEntities emits one mention event per extracted
\* entity for every comment with non-empty text of every discussion, nested
\* replies at any depth included; each event carries the comment's score and
\* timestamp and the discussion's id.
C13_MentionsOfEveryComment ==
    pc = "entities" =>
        \A k \in Discussions :
            LET d == data.discussions[k] IN
            \A i \in Range(Flattened(d)) : \A ev \in ExpectedMentions(d, i) :
                Cardinality({j \in DOMAIN sources[1] : MentionEvent(sources[1][j]) = ev}) = 1

Returned(fn) == call # Null /\ call.fn = fn /\ call.returned

\* position of the first entity of the list with the key of entity e
FirstOccurrence(entities, e) ==
    CHOOSE i \in DOMAIN entities :
        /\ KeyOf([entity |-> entities[i]]) = KeyOf([entity |-> e])
        /\ \A j \in 1..(i - 1) : KeyOf([entity |-> entities[j]]) # KeyOf([entity |-> e])

\* C14: in the result of deduplicateEntities no two entities share
\* (type, normalizedText), every key of the input is represented by its first
\* occurrence, the relative order of the input is kept, and deduplicating the
\* result again changes nothing.
C14_Deduplicated ==
    Returned("deduplicateEntities") =>
        LET in == call.arg
            out == call.result
            pos == [j \in DOMAIN out |->
                      IF out[j] \in Range(in) THEN FirstOccurrence(in, out[j]) ELSE 0]
        IN  /\ \A j, k \in DOMAIN out :
                  j # k => KeyOf([entity |-> out[j]]) # KeyOf([entity |-> out[k]])
            /\ \A i \in DOMAIN in : \E j \in DOMAIN out : pos[j] = FirstOccurrence(in, in[i])
            /\ \A j \in DOMAIN out : pos[j] > 0 /\ out[j] = in[pos[j]]
            /\ \A j, k \in DOMAIN out : j < k => pos[j] < pos[k]
            /\ deduplicateEntities(out) = out

\* 'Paris' as PERSON, as LOCATION, again as PERSON spelled 'PARIS!', then
\* OpenAI: the second PERSON is dropped, the LOCATION stays
C14_Witness ==
    /\ Returned("deduplicateEntities")
    /\ Len(call.arg) = 4
    /\ <<call.arg[1].type, call.arg[2].type, call.arg[3].type, call.arg[4].type>> =
          <<"PERSON", "LOCATION", "PERSON", "ORGANIZATION">>
    /\ <<call.arg[1].text, call.arg[3].text>> = <<"Paris", "PARIS!">>
    /\ call.result = <<call.arg[1], call.arg[2], call.arg[4]>>

\* a compound score in millionths
Millionths(compound) == compound[1] * (1000000 \div compound[2])

LabelOf(compound) ==
    CASE Millionths(compound) >= 50000  -> "positive"
      [] Millionths(compound) <= -50000 -> "negative"
      [] OTHER                          -> "neutral"

\* C15: the label is a function of compound alone with inclusive thresholds:
\* compound >= 0.05 is positive (0.05 itself too), compound <= -0.05 is
\* negative (-0.05 itself too), anything between (0.0, 0.049999) is neutral;
\* getSentimentLabel and classifySentiment give the same label.
C15_InclusiveThresholds ==
    (Returned("getSentimentLabel") \/ Returned("classifySentiment")) =>
        /\ call.result = LabelOf(call.arg)
        /\ call.result = getSentimentLabel(call.arg)
        /\ call.result = classifySentiment(call.arg)
        /\ call.arg = Frac(5, 100) => call.result = "positive"
        /\ call.arg = Frac(-5, 100) => call.result = "negative"
        /\ call.arg \in {Frac(0, 100), Frac(49999, 1000000)} => call.result = "neutral"

\* getSentimentLabel(0.05) returned 'positive'
C15_Witness ==
    /\ Returned("getSentimentLabel")
    /\ call.arg = Frac(5, 100)
    /\ call.result = "positive"

\* C16: no average divides by zero or by a negative sum: for every comment
\* list (empty, all scores <= 0, mixed) each field of the result of
\* calculateWeightedAverageSentiment is a defined number (0 for the empty
\* list), and buildEntityChains divides by the chain's score sum only when that
\* sum is > 0.
C16_NoDivisionByZero ==
    /\ Returned("calculateWeightedAverageSentiment") =>
          \A f \in Fields :
             /\ call.result[f][2] > 0
             /\ call.arg = <<>> => call.result[f][1] = 0
    /\ Returned("buildEntityChains") =>
          \A j \in DOMAIN call.result : \A f \in SentimentFields :
             LET chain == call.result[j] IN
             /\ chain.averageSentiment[f][2] > 0
             /\ chain.averageSentiment[f][2] # 1 =>
                   /\ TrendScoreSum(chain) > 0
                   /\ chain.averageSentiment[f][2] = 100 * TrendScoreSum(chain)

\* scores 0 and -5: the mean of the two compounds 0.5 and -0.9, divided by 2
C16_Witness ==
    /\ Returned("calculateWeightedAverageSentiment")
    /\ Len(call.arg) = 2
    /\ <<call.arg[1].score, call.arg[2].score>> = <<0, -5>>
    /\ <<call.arg[1].text, call.arg[2].text>> = <<"good", "awful">>
    /\ call.result.compound = Frac(-40, 200)

RECURSIVE Descendants(_, _)
\* the comments reached from the comments of S by following replies (S excluded
\* unless reached)
Descendants(nodes, S) ==
    LET next == UNION {Range(nodes[i].replies) : i \in S}
    IN  IF next \subseteq S THEN next ELSE next \cup Descendants(nodes, S \cup next)

\* C17: after tree building over any input list no comment is reachable from
\* itself by following replies, and each comment has been inserted into at most
\* one parent's replies list.
C17_NoCycle ==
    \A k \in Discussions : Built(k) =>
        LET nodes == data.discussions[k].nodes IN
        \A i \in DOMAIN nodes :
            /\ i \notin Descendants(nodes, {i})
            /\ SumFn([p \in DOMAIN nodes |-> Occurrences(nodes[p].replies, i)],
                     DOMAIN nodes) <= 1

OfType(chains, type) == {j \in DOMAIN chains : chains[j].entity.type = type}

\* C18: in the consolidated entity analysis of saveConsolidatedAnalysis,
\* totalEntities is the number of merged chains, the persons / organizations /
\* locations breakdown counts the merged chains by type and sums to
\* totalEntities, and totalMentions and totalScore are the sums of the merged
\* chains' totalMentions and totalScore.
C18_CountersAgree ==
    Saved =>
        LET ea == consolidated.entityAnalysis
            chains == ea.entityChains
        IN  /\ ea.totalEntities = Cardinality(DOMAIN chains)
            /\ ea.entityBreakdown.persons = Cardinality(OfType(chains, "PERSON"))
            /\ ea.entityBreakdown.organizations = Cardinality(OfType(chains, "ORGANIZATION"))
            /\ ea.entityBreakdown.locations = Cardinality(OfType(chains, "LOCATION"))
            /\ ea.entityBreakdown.persons + ea.entityBreakdown.organizations
                  + ea.entityBreakdown.locations = ea.totalEntities
            /\ ea.totalMentions = SumFn([j \in DOMAIN chains |-> chains[j].totalMentions],
                                        DOMAIN chains)
            /\ ea.totalScore = SumFn([j \in DOMAIN chains |-> chains[j].totalScore],
                                     DOMAIN chains)

\* two sources with three chains between them, one key in both: two merged
\* chains, three mentions
C18_Witness ==
    /\ Saved
    /\ Len(entityAnalyses) = 2
    /\ entityAnalyses[1].totalEntities + entityAnalyses[2].totalEntities = 3
    /\ consolidated.entityAnalysis.totalEntities = 2
    /\ consolidated.entityAnalysis.totalMentions = 3
    /\ consolidated.entityAnalysis.entityBreakdown.persons = 1
    /\ consolidated.entityAnalysis.entityBreakdown.locations = 1

\* the chain with the key of the first source, in list order, that has one
FirstSourceChain(analyses, key) ==
    LET refs == RefsOfKey(analyses, key)
        first == CHOOSE r \in refs : \A q \in refs : r[1] <= q[1]
    IN  analyses[first[1]].entityChains[first[2]]

\* C19: the averageSentiment of a merged chain of saveConsolidatedAnalysis is
\* the averageSentiment of the chain of the first source, in source-list order,
\* that contains the key; it is not recomputed from the merged sentimentTrend
\* and no later source overwrites it.
C19_FirstSourceAverage ==
    Saved =>
        \A j \in DOMAIN consolidated.entityAnalysis.entityChains :
            LET chain == consolidated.entityAnalysis.entityChains[j] IN
            chain.averageSentiment =
                FirstSourceChain(entityAnalyses, KeyOf(chain)).averageSentiment

\* source 1 rates the entity 0.5 at score 10, source 2 rates it -0.9 at score
\* 15: the merged chain stays positive at 0.5, the re-weighted mean is -0.34
C19_Witness ==
    /\ Saved
    /\ Len(entityAnalyses) = 2
    /\ Len(entityAnalyses[1].entityChains) = 1
    /\ Len(entityAnalyses[2].entityChains) = 1
    /\ Len(consolidated.entityAnalysis.entityChains) = 1
    /\ LET chain == consolidated.entityAnalysis.entityChains[1] IN
       /\ Len(chain.sentimentTrend) = 2
       /\ entityAnalyses[1].entityChains[1].averageSentiment.overall = "positive"
       /\ entityAnalyses[2].entityChains[1].averageSentiment.overall = "negative"
       /\ chain.averageSentiment.overall = "positive"
       /\ FracEq(chain.averageSentiment.compound, Frac(50, 100))
       /\ AverageSentiment(chain).overall = "negative"

Completed(j) == j \in DOMAIN job /\ job[j].status = "completed"

\* number of discussions of the sources listed before source k
DiscussionsBefore(allData, k) ==
    SumFn([j \in DOMAIN allData |-> Len(allData[j].discussions)], 1..(k - 1))

\* C20: the discussions of the consolidated result are the discussions of the
\* successful sources concatenated in source-list order, and each carries as
\* its subreddit tag the identifier of the one source it was fetched from.
C20_DiscussionsTaggedBySource ==
    \A j \in DOMAIN job : Completed(j) =>
        LET allData == run[j].allData
            result == db.analyses[job[j].resultIds[1]]
        IN  /\ Len(result.discussions) = DiscussionsBefore(allData, Len(allData) + 1)
            /\ \A k \in DOMAIN allData : \A i \in DOMAIN allData[k].discussions :
                  LET discussion == result.discussions[DiscussionsBefore(allData, k) + i] IN
                  /\ discussion.id = allData[k].discussions[i].id
                  /\ discussion.subreddit = <<allData[k].subreddit>>

\* the sources whose fetch gave data, in loop order
DataSources(fetched) ==
    SelectSeq([s \in DOMAIN fetched |-> s], LAMBDA s : fetched[s] = "data")

\* C21: in processAnalysisJob and in the command-line loop a source whose
\* fetch or processing throws or gives no data is skipped and the loop goes on:
\* every source gets its iteration, and what is consolidated (or saved by the
\* command line) comes from exactly the sources that gave data.
C21_FailedSourceSkipped ==
    /\ \A j \in DOMAIN job :
          /\ run[j].pc = "loop" => Len(run[j].fetched) = run[j].i - 1
          /\ [k \in DOMAIN run[j].allData |-> run[j].allData[k].subreddit]
                = DataSources(run[j].fetched)
          /\ job[j].status = "completed" =>
                /\ Len(run[j].fetched) = NumSources
                /\ db.analyses[job[j].resultIds[1]].subreddit = DataSources(run[j].fetched)
    /\ (job = <<>> /\ run # <<>>) =>
          /\ run[1].pc = "cli" => Len(run[1].fetched) = run[1].i - 1
          /\ run[1].pc = "exit" => Len(run[1].fetched) = NumSources
          /\ \A k \in DOMAIN run[1].saved :
                run[1].fetched[run[1].saved[k].subreddit] = "data"
          /\ \A s \in DOMAIN run[1].fetched :
                run[1].fetched[s] # "data" =>
                   \A k \in DOMAIN run[1].saved : run[1].saved[k].subreddit # s

C21_Witness ==
    /\ Len(job) = 1
    /\ job[1].status = "completed"
    /\ run[1].fetched[1] = "throw"
    /\ run[1].fetched[NumSources] = "data"
    /\ db.analyses[job[1].resultIds[1]].subreddit = <<NumSources>>

\* every iteration of job j's loop has run and none gave data
NoSourceYieldedData(j) ==
    /\ Len(run[j].fetched) = NumSources
    /\ DataSources(run[j].fetched) = <<>>

\* C22: when no source yields data, processAnalysisJob saves no analysis, the
\* job is never marked completed, and once processAnalysisJob has returned the
\* job has status failed with the message that no data was collected.
C22_NoDataFails ==
    \A j \in DOMAIN job : NoSourceYieldedData(j) =>
       /\ db.analyses = <<>>
       /\ job[j].status # "completed"
       /\ run[j].pc = "done" =>
             /\ job[j].status = "failed"
             /\ job[j].errorMessage = "No data collected from any subreddit"

\* the sources whose iteration gave no data
FailedSources(fetched) == {s \in DOMAIN fetched : fetched[s] # "data"}

\* the source identifiers that appear anywhere in a delivered result
SourcesNamedIn(result) ==
    Range(result.subreddits)
       \cup UNION {Range(result.discussions[k].subreddit) : k \in DOMAIN result.discussions}

\* C23: when some sources fail and at least one succeeds, the result delivered
\* to the caller (GET /api/job/:id of the completed job) names the sources
\* that failed.
C23_FailedSourcesReported ==
    \A j \in DOMAIN job :
       (Completed(j) /\ FailedSources(run[j].fetched) # {}) =>
           /\ JobResponse(j).status = "completed"
           /\ FailedSources(run[j].fetched) \subseteq SourcesNamedIn(JobResponse(j).data)

\* the entities the tagger finds in a text it does not throw on
TaggedIn(text) ==
    IF IsBlank(text) \/ TaggerThrows(text) THEN {}
    ELSE {[type |-> e.type, normalizedText |-> e.normalizedText] : e \in Range(Recognized(text))}

\* C24: when the scorer or the tagger throws on one comment, only that comment
\* is skipped for that stage: the source's result is still produced, every
\* other comment is scored, and every other top-level comment is tagged.
C24_ThrowSkipsOnlyComment ==
    /\ pc # "dropped"
    /\ pc \in {"analyzed", "entities"} =>
          \A k \in DOMAIN data.discussions :
             LET d == data.discussions[k] IN
             \A i \in Range(Flattened(d)) :
                ~ScorerThrows(d.nodes[i].text) => d.nodes[i].sentiment # Unset
    /\ pc = "entities" =>
          \A k \in DOMAIN data.discussions :
             LET d == data.discussions[k] IN
             \A i \in Range(d.comments) : \A e \in TaggedIn(d.nodes[i].text) :
                \E j \in DOMAIN sources[1] :
                   /\ sources[1][j].entity.type = e.type
                   /\ sources[1][j].entity.normalizedText = e.normalizedText
                   /\ sources[1][j].timestamp = d.nodes[i].timestamp

\* the stored analyses of a request's category, query, timeframe and minimum
\* post score that are at most 24 hours old
StoredWithin24h(key) ==
    {row \in Range(db.analyses) : row.key = key /\ now - row.createdAt <= 24}

\* what C25 says of one POST /api/analyze for key
CachedOrCreated(key) ==
    /\ Len(job') > Len(job) =>
          /\ StoredWithin24h(key) = {}
          /\ job'[Len(job')].key = key
    /\ (StoredWithin24h(key) # {} /\ response'.success) =>
          /\ response'.cached
          /\ job' = job
          /\ run' = run
    /\ (response'.success /\ response'.cached) =>
          \E row \in StoredWithin24h(key) :
             /\ response'.data.id = row.id
             /\ response'.data.discussions = row.discussions

\* C25: POST /api/analyze creates a job only when no stored analysis with the
\* same category, query, timeframe and minimum post score was created within
\* the last 24 hours; when there is one, the request returns it with
\* cached = true, creates no job and starts no processing.
C25_CacheBeforeJob ==
    [][\A key \in Keys, includeEntities \in BOOLEAN :
          PostAnalyze(key, includeEntities) => CachedOrCreated(key)]_vars

C25_Witness ==
    /\ "cached" \in DOMAIN response
    /\ response.cached
    /\ now - response.data.createdAt = 24
    /\ Len(job) = 1
    /\ job[1].key # response.data.key

\* job j is the one completed job of the request (key, includeEntities), and
\* its analysis was saved at most 24 hours ago
CompletedWithin24h(j, key, includeEntities) ==
    /\ Completed(j)
    /\ job[j].key = key
    /\ job[j].includeNER = includeEntities
    /\ now - db.analyses[job[j].resultIds[1]].createdAt <= 24
    /\ \A other \in DOMAIN job : (Completed(other) /\ job[other].key = key) => other = j

\* C26: after a job has completed, an identical POST /api/analyze within 24
\* hours returns the analysis record GET /api/job/:id returns for that job (the
\* one in resultIds), with the same discussions and the same entity chains.
C26_CachedIsJobResult ==
    [][\A key \in Keys, includeEntities \in BOOLEAN :
          PostAnalyze(key, includeEntities) =>
             \A j \in DOMAIN job :
                (CompletedWithin24h(j, key, includeEntities) /\ response'.success) =>
                    /\ response'.cached
                    /\ response'.data.id = job[j].resultIds[1]
                    /\ response'.data.discussions = JobResponse(j).data.discussions
                    /\ response'.data.entities = JobResponse(j).data.entities]_vars

\* C27: at no time are two jobs with the same category, query, timeframe and
\* minimum post score pending or running together.
C27_OneJobPerRequest ==
    \A j, k \in DOMAIN job :
       (/\ job[j].key = job[k].key
        /\ job[j].status \in {"pending", "running"}
        /\ job[k].status \in {"pending", "running"}) => j = k

\* the moves C28 allows a status to make in one step
StatusMoves ==
    {<<"pending", "running">>, <<"running", "completed">>,
     <<"pending", "failed">>, <<"running", "failed">>}

\* C28: a job's status only moves pending -> running -> completed or
\* pending/running -> failed, a completed or failed job keeps its status, and a
\* completed job has progress 100 and a non-empty resultIds that references a
\* saved analysis.
C28_StatusLifecycle ==
    [][\A j \in DOMAIN job :
          /\ job'[j].status # job[j].status =>
                <<job[j].status, job'[j].status>> \in StatusMoves
          /\ job'[j].status = "completed" =>
                /\ job'[j].progress = 100
                /\ Len(job'[j].resultIds) > 0
                /\ \E row \in Range(db'.analyses) : row.id = job'[j].resultIds[1]]_vars

C28_Witness ==
    /\ Len(job) = 1
    /\ job[1].status = "failed"
    /\ job[1].progress = 90
    /\ run[1].pc = "done"
    /\ Len(db.analyses) = 2

\* C29: once processAnalysisJob has returned for a job (every external call
\* has returned or thrown), the job has status completed or failed, whatever
\* step threw.
C29_JobReachesFinalStatus ==
    \A j \in DOMAIN job :
       run[j].pc = "done" => job[j].status \in {"completed", "failed"}

\* C30: detectSarcasm is a function of its text alone: a call with the text of
\* the call before it returns the same isSarcastic and the same confidence.
C30_SameTextSameResult ==
    [][(Returned("detectSarcasm") /\ call'.fn = "detectSarcasm" /\ call'.arg = call.arg) =>
          /\ call'.result.isSarcastic = call.result.isSarcastic
          /\ FracEq(call'.result.confidence, call.result.confidence)]_vars

====
